---- MODULE Spec2Model ----
(***************************************************************************)
(* Model of relaxbot (src/bot.py): a chat bot that keeps a token/ticket    *)
(* ledger in a Google sheet and serves the commands !balance, !tickets,    *)
(* !buy <n> and !transfer <n> <username>.                                  *)
(*                                                                         *)
(* Names are sequences of one-character strings so that str.lower() and    *)
(* str.lstrip("@") are computed, not assumed.  The sheet is the sequence   *)
(* of its data rows (sheet row number = index + 1, row 1 is the header).   *)
(* Every gspread call is one step of the handler that makes it and may     *)
(* raise.  The gspread calls are synchronous: a handler keeps the event    *)
(* loop from its first statement to its next await.                        *)
(***************************************************************************)
EXTENDS Integers, Sequences, FiniteSets, TLC

\* ------------------------------------------------------------------ bounds
MaxCmds == 2      \* commands dispatched in one behaviour
MaxFaults == 1    \* store calls that raise in one behaviour

\* the command tasks: two commands can be in flight together
Tasks == {1, 2}

\* ------------------------------------------------------------- characters
Digits == <<"0", "1", "2", "3", "4", "5", "6", "7", "8", "9">>

\* str.lower() on one character (bot.py:53, 206, 208)
LowerChar(c) ==
  CASE c = "A" -> "a"
    [] c = "B" -> "b"
    [] c = "C" -> "c"
    [] OTHER -> c

\* str.lower() (bot.py:53, 206, 208)
Lower(s) == [i \in 1..Len(s) |-> LowerChar(s[i])]

\* str.lstrip("@"): drops every leading "@" (bot.py:206)
RECURSIVE LStripAt(_)
LStripAt(s) == IF s # <<>> /\ Head(s) = "@" THEN LStripAt(Tail(s)) ELSE s

\* decimal text of a non-negative integer, as the sheet shows a numeric cell
RECURSIVE StrNat(_)
StrNat(k) == IF k < 10 THEN <<Digits[k + 1]>>
             ELSE StrNat(k \div 10) \o <<Digits[(k % 10) + 1]>>

\* text of a numeric cell, which Worksheet.find compares with the query
StrInt(k) == IF k < 0 THEN <<"-">> \o StrNat(0 - k) ELSE StrNat(k)

\* gspread numericises a cell made of digits when it builds the records
IsNumericText(s) == s # <<>> /\ \A i \in 1..Len(s) : \E d \in 1..10 : s[i] = Digits[d]

\* ------------------------------------------------------------------ names
\* One-letter user names; an upper-case letter is the same name as the sheet
\* may hold it (display form), "7" is a name made of digits.
alice == <<"a">>
Alice == <<"A">>
bob == <<"b">>
Bob == <<"B">>
carol == <<"c">>
seven == <<"7">>
Blank == <<>>

\* ------------------------------------------------------------ the sheet
\* A data row of the sheet: the three columns the bot uses and one more
\* column it does not interpret (header row: Username, Tokens, Tickets, Notes).
\* No name of the input sets equals a header text, so the header row is never
\* a match of Worksheet.find and is not searched below.
MkRow(u, tok, tic, note) == [Username |-> u, Tokens |-> tok, Tickets |-> tic, Notes |-> note]

Fields == {"Tokens", "Tickets"}

\* result of get_user_info: a value, None (store error, caught), or raised
None == [kind |-> "none", val |-> 0]
Raised == [kind |-> "raised", val |-> 0]
Unset == [kind |-> "unset", val |-> 0]
Val(v) == [kind |-> "val", val |-> v]

\* bot.py:52-55, the loop over the records of get_all_records().  A Username
\* cell made of digits is an int in the record, and .lower() on it raises.
RECURSIVE get_user_info_loop(_, _, _, _)
get_user_info_loop(s, i, username, field_name) ==
  IF i > Len(s) THEN Val(0)
  ELSE IF IsNumericText(s[i].Username) THEN Raised
  ELSE IF Lower(s[i].Username) = Lower(username) THEN Val(s[i][field_name])
  ELSE get_user_info_loop(s, i + 1, username, field_name)

\* bot.py:33-55; ok = FALSE when sheet.get_all_records() raises
get_user_info(s, username, field_name, ok) ==
  IF ~ok THEN None ELSE get_user_info_loop(s, 1, username, field_name)

\* the texts of the cells of a data row, as Worksheet.find sees them
CellTexts(r) == {r.Username, StrInt(r.Tokens), StrInt(r.Tickets), r.Notes}

\* bot.py:61, sheet.find(username): the first cell of the sheet whose text
\* equals the query exactly; the result is its row number, 0 for no cell
FindExact(s, username) ==
  LET hits == {i \in 1..Len(s) : username \in CellTexts(s[i])}
  IN IF hits = {} THEN 0 ELSE (CHOOSE i \in hits : \A j \in hits : i <= j) + 1

\* bot.py:75, sheet.update_cell(row, col, new_value) on the column of field
update_cell(s, row, field, new_value) ==
  [s EXCEPT ![row - 1] = [@ EXCEPT ![field] = new_value]]

\* a test for None in place of the truthiness test
TruthyNotNone(r) == r.kind = "val"
\* python truthiness of a get_user_info result (bot.py:151, 166, 216)
Truthy(r) == r.kind = "val" /\ r.val # 0

\* ------------------------------------------------------------ constants
cost == 52000

\* ---------------------------------------------------------------- inputs
\* ctx.author.name of the commands, and their arguments
Buyers == {alice, seven}
BuyArgs == {0 - 1, 0, 1, 2}
Gifters == {alice}
TransferAmounts == {0 - 1, 0, 3, 100}
ReceiverArgs == {<<"@", "A">>, <<"@", "@", "B">>, carol}
Askers == {alice, carol}

\* the (Username, Notes) cells of the two data rows of the initial sheets:
\* names as the commands give them, a capitalised name in either row, and a
\* Notes cell that holds the name of the user of the other row
Layouts == { <<alice, Blank, bob, Blank>>,
             <<Alice, Blank, bob, Blank>>,
             <<alice, Blank, Bob, Blank>>,
             <<bob, alice, alice, Blank>> }

\* the sheets of every layout in which the row of alice holds tokensA, the
\* other row holds tokensB, and both hold no tickets
Sheets(tokensA, tokensB) ==
  { << MkRow(l[1], IF Lower(l[1]) = alice THEN tA ELSE tB, 0, l[2]),
       MkRow(l[3], IF Lower(l[3]) = alice THEN tA ELSE tB, 0, l[4]) >> :
      l \in Layouts, tA \in tokensA, tB \in tokensB }

\* initial sheets of the three specifications
BuySheets == Sheets({0, 100000}, {7})
TransferSheets == Sheets({0, 10}, {0, 5})
QuerySheets == Sheets({0, 10}, {0, 5})

\* ----------------------------------------------------------------- state
VARIABLES
  sheet,     \* the data rows of the Google sheet
  task,      \* per command task: its arguments, locals, position and record
  running,   \* the task that holds the event loop, 0 when the loop is free
  ncmds,     \* commands dispatched so far
  nfaults,   \* store calls that raised so far
  db,        \* tokens.db: whether the tokens table exists, and its rows
  session,   \* the token pairs the session layer has registered, in order
  call,      \* per add_token call: its arguments, position and record
  loader     \* the startup sequence: setup_database, then load_tokens

credvars == <<db, session, call, loader>>
vars == <<sheet, task, running, ncmds, nfaults, db, session, call, loader>>

\* a task slot with no command
IdleTask ==
  [ cmd |-> "none", pc |-> "idle", author |-> Blank, n |-> 0, arg |-> Blank,
    receiver |-> Blank,
    points |-> Unset, tickets |-> Unset,
    gifter_points |-> Unset, receiver_points |-> Unset,
    call |-> 0, uname |-> Blank, updates |-> <<>>, row |-> 0,
    outcome |-> "none", replies |-> 0, reads |-> 0, writes |-> <<>>,
    pre |-> <<>>, post |-> <<>> ]

\* the positions at which a handler is suspended in an await: only the
\* ctx.reply / ctx.send calls are awaited, no gspread call is
AwaitPoints == {"reply"}

Ended == {"idle", "done", "raised"}

\* the event loop after task record tk has made a step: a handler gives the
\* loop back when it awaits, returns or raises
LoopAfter(t, tk) == IF tk.pc \in AwaitPoints \cup Ended THEN 0 ELSE t

CanRun(t) == running \in {0, t}

\* a store call either works or raises; MaxFaults caps the calls that raise
Oks == IF nfaults < MaxFaults THEN BOOLEAN ELSE {TRUE}
Faults(ok) == IF ok THEN nfaults ELSE nfaults + 1

\* the handler has decided its reply and awaits sending it
Finish(tk, outcome, s) == [tk EXCEPT !.pc = "reply", !.outcome = outcome, !.post = s]
\* an exception leaves the handler: no reply is sent
Raise(tk, s) == [tk EXCEPT !.pc = "raised", !.outcome = "Exception", !.post = s]

\* ------------------------------------------------------ the token store
\* the add_token calls: 0 is the call load_tokens makes for the record it is
\* at, 1 and 2 are calls of the session layer, which can overlap
LoadCall == 0
Callers == {0, 1, 2}

\* token pairs, and the user a token validates to (resp.user_id, bot.py:97):
\* two pairs of user u1 (the second a later pair of the same user), one of u2
PairOld == [token |-> "t1", refresh |-> "r1"]
PairNew == [token |-> "t2", refresh |-> "r2"]
PairOther == [token |-> "t3", refresh |-> "r3"]
Pairs == {PairOld, PairNew, PairOther}
Owner(token) == IF token = "t3" THEN "u2" ELSE "u1"

\* a row of the tokens table (bot.py:125)
MkRecord(user_id, token, refresh) ==
  [user_id |-> user_id, token |-> token, refresh |-> refresh]

\* tokens.db before setup_database: no table, or the table an earlier run left
NoTable == [exists |-> FALSE, rows |-> <<>>, nwrites |-> 0]
Table(rows) == [exists |-> TRUE, rows |-> rows, nwrites |-> 0]
InitDbs == { NoTable, Table(<<>>), Table(<<MkRecord("u1", "t1", "r1")>>),
             Table(<<MkRecord("u1", "t1", "r1"), MkRecord("u2", "t3", "r3")>>) }

\* INSERT with no ON CONFLICT clause taking effect: a second row
UpsertAppend(rows, user_id, token, refresh) ==
  Append(rows, MkRecord(user_id, token, refresh))
\* ON CONFLICT(user_id) DO NOTHING: the stored row is kept
UpsertKeepOld(rows, user_id, token, refresh) ==
  IF \E i \in 1..Len(rows) : rows[i].user_id = user_id THEN rows
  ELSE Append(rows, MkRecord(user_id, token, refresh))
\* bot.py:99-106, INSERT ... ON CONFLICT(user_id) DO UPDATE SET token, refresh
Upsert(rows, user_id, token, refresh) ==
  IF \E i \in 1..Len(rows) : rows[i].user_id = user_id
  THEN [i \in 1..Len(rows) |->
          IF rows[i].user_id = user_id THEN MkRecord(user_id, token, refresh)
          ELSE rows[i]]
  ELSE Append(rows, MkRecord(user_id, token, refresh))

\* an add_token call slot with no call
IdleCall ==
  [ pc |-> "idle", token |-> "", refresh |-> "", user_id |-> "", seq |-> 0,
    persisted |-> "no", wno |-> 0, before |-> <<>>, after |-> <<>> ]

\* the startup sequence before it runs (main, bot.py:242-245)
IdleLoader == [pc |-> "setup", rows |-> <<>>, idx |-> 1]

InitCred(d) ==
  /\ db = d
  /\ session = <<>>
  /\ call = [c \in Callers |-> IdleCall]
  /\ loader = IdleLoader

\* -------------------------------------------------------- initial state
InitWith(sheets) ==
  /\ sheet \in sheets
  /\ task = [t \in Tasks |-> IdleTask]
  /\ running = 0
  /\ ncmds = 0
  /\ nfaults = 0
  /\ InitCred(NoTable)

\* ----------------------------------------------------- command dispatch
\* the transport starts a task for an incoming command
Dispatch(t, cmd, firstpc, author, n, arg) ==
  /\ running = 0
  /\ task[t].pc \in Ended
  /\ \A t2 \in Tasks : t2 < t => task[t2].pc \notin Ended
  /\ ncmds < MaxCmds
  /\ task' = [task EXCEPT ![t] = [IdleTask EXCEPT !.cmd = cmd, !.pc = firstpc,
                                   !.author = author, !.n = n, !.arg = arg]]
  /\ ncmds' = ncmds + 1
  /\ UNCHANGED <<sheet, running, nfaults>>
  /\ UNCHANGED credvars

DispatchBalance(t) == \E u \in Askers : Dispatch(t, "balance", "q_read", u, 0, Blank)
DispatchTickets(t) == \E u \in Askers : Dispatch(t, "tickets", "q_read", u, 0, Blank)
DispatchBuy(t) == \E u \in Buyers, n \in BuyArgs : Dispatch(t, "buy", "b_tokens", u, n, Blank)
DispatchTransfer(t) ==
  \E u \in Gifters, n \in TransferAmounts, r \in ReceiverArgs :
     Dispatch(t, "transfer", "t_begin", u, n, r)

\* one step of task t: it needs the loop, and keeps it unless it now awaits
Step(t, tk, s, ok) ==
  /\ task' = [task EXCEPT ![t] = tk]
  /\ sheet' = s
  /\ running' = LoopAfter(t, tk)
  /\ nfaults' = Faults(ok)
  /\ UNCHANGED ncmds
  /\ UNCHANGED credvars

\* ------------------------------------------------- !balance and !tickets
\* bot.py:141-154
check_balance(t) ==
  /\ CanRun(t) /\ task[t].cmd = "balance" /\ task[t].pc = "q_read"
  /\ \E ok \in Oks :
       LET r == get_user_info(sheet, task[t].author, "Tokens", ok)
           tk == [task[t] EXCEPT !.points = r, !.reads = @ + 1, !.pre = sheet]
       IN Step(t, IF r.kind = "raised" THEN Raise(tk, sheet)
                  ELSE IF Truthy(r) THEN Finish(tk, "Balance", sheet)
                  ELSE Finish(tk, "BalanceError", sheet), sheet, ok)

\* bot.py:156-169
check_tickets(t) ==
  /\ CanRun(t) /\ task[t].cmd = "tickets" /\ task[t].pc = "q_read"
  /\ \E ok \in Oks :
       LET r == get_user_info(sheet, task[t].author, "Tickets", ok)
           tk == [task[t] EXCEPT !.tickets = r, !.reads = @ + 1, !.pre = sheet]
       IN Step(t, IF r.kind = "raised" THEN Raise(tk, sheet)
                  ELSE IF Truthy(r) THEN Finish(tk, "Tickets", sheet)
                  ELSE Finish(tk, "TicketsError", sheet), sheet, ok)

\* ------------------------------------------------- update_user_fields
\* a call of update_user_fields(username, updates) starts (bot.py:58)
CallUpdate(tk, k, username, updates) ==
  [tk EXCEPT !.pc = "u_find", !.call = k, !.uname = username,
             !.updates = updates, !.row = 0]

\* update_user_fields returns result to its caller: bot.py:195-198 in buy,
\* bot.py:229-236 in transfer (the second call is made only if the first
\* returned True)
Returned(tk, result, s) ==
  IF tk.cmd = "buy"
  THEN Finish(tk, IF result THEN "Bought" ELSE "UpdateError", s)
  ELSE IF ~result THEN Finish(tk, "TransferError", s)
  ELSE IF tk.call = 1
  THEN CallUpdate(tk, 2, tk.receiver,
                  << <<"Tokens", tk.receiver_points.val + tk.n>> >>)
  ELSE Finish(tk, "Transferred", s)

\* bot.py:61-64, sheet.find(username); an exception is caught (68-70)
update_find(t) ==
  /\ CanRun(t) /\ task[t].pc = "u_find"
  /\ \E ok \in Oks :
       LET row == FindExact(sheet, task[t].uname)
       IN Step(t, IF ~ok \/ row = 0 THEN Returned(task[t], FALSE, sheet)
                  ELSE [task[t] EXCEPT !.pc = "u_headers", !.row = row], sheet, ok)

\* bot.py:67, sheet.row_values(1); an exception is caught (68-70)
update_headers(t) ==
  /\ CanRun(t) /\ task[t].pc = "u_headers"
  /\ \E ok \in Oks :
       Step(t, IF ~ok THEN Returned(task[t], FALSE, sheet)
               ELSE [task[t] EXCEPT !.pc = "u_cell"], sheet, ok)

\* bot.py:72-76, one iteration of the loop over updates: both fields are
\* header cells, so update_cell is called; its exception is not caught
update_user_cell(t) ==
  /\ CanRun(t) /\ task[t].pc = "u_cell"
  /\ \E ok \in Oks :
       LET u == Head(task[t].updates)
           rest == Tail(task[t].updates)
           s == IF ok THEN update_cell(sheet, task[t].row, u[1], u[2]) ELSE sheet
           tk == [task[t] EXCEPT !.updates = rest,
                    !.writes = Append(@, [row |-> task[t].row, field |-> u[1],
                                          value |-> u[2], ok |-> ok])]
       IN Step(t, IF ~ok THEN Raise(tk, s)
                  ELSE IF rest = <<>> THEN Returned(tk, TRUE, s)
                  ELSE tk, s, ok)

\* ------------------------------------------------------------------ !buy
\* bot.py:177-178
buy_read_points(t) ==
  /\ CanRun(t) /\ task[t].cmd = "buy" /\ task[t].pc = "b_tokens"
  /\ \E ok \in Oks :
       LET r == get_user_info(sheet, task[t].author, "Tokens", ok)
           tk == [task[t] EXCEPT !.points = r, !.reads = @ + 1, !.pre = sheet]
       IN Step(t, IF r.kind = "raised" THEN Raise(tk, sheet)
                  ELSE [tk EXCEPT !.pc = "b_tickets"], sheet, ok)

\* the funds check with the quantity left out of the price
InsufficientNoQty(points, n) == points < cost
\* bot.py:185-188, the funds check of buy_tickets
Insufficient(points, n) == points < cost * n

\* bot.py:190-193, the values buy_tickets writes
BuyUpdates(points, tickets, n) ==
  << <<"Tokens", points - cost * n>>, <<"Tickets", tickets + n>> >>

\* bot.py:179-193: the second read, the checks, and the call of
\* update_user_fields
buy_read_tickets(t) ==
  /\ CanRun(t) /\ task[t].cmd = "buy" /\ task[t].pc = "b_tickets"
  /\ \E ok \in Oks :
       LET r == get_user_info(sheet, task[t].author, "Tickets", ok)
           tk == [task[t] EXCEPT !.tickets = r, !.reads = @ + 1]
           points == tk.points
       IN Step(t, IF r.kind = "raised" THEN Raise(tk, sheet)
                  ELSE IF points.kind = "none" \/ r.kind = "none"
                       THEN Finish(tk, "BalanceUnavailable", sheet)
                  ELSE IF Insufficient(points.val, tk.n)
                       THEN Finish(tk, "InsufficientFunds", sheet)
                  ELSE CallUpdate(tk, 1, tk.author,
                                  BuyUpdates(points.val, r.val, tk.n)),
               sheet, ok)

\* ------------------------------------------------------------- !transfer
\* the receiver name without the case fold
ReceiverNameNoFold(username) == LStripAt(username)
\* bot.py:206, the receiver name the handler uses
ReceiverName(username) == Lower(LStripAt(username))

\* bot.py:205-210
transfer_begin(t) ==
  /\ CanRun(t) /\ task[t].cmd = "transfer" /\ task[t].pc = "t_begin"
  /\ LET receiver == ReceiverName(task[t].arg)
         tk == [task[t] EXCEPT !.receiver = receiver, !.pre = sheet]
     IN Step(t, IF Lower(tk.author) = receiver
                THEN Finish(tk, "SelfTransfer", sheet)
                ELSE [tk EXCEPT !.pc = "t_gifter"], sheet, TRUE)

\* bot.py:213
transfer_read_gifter(t) ==
  /\ CanRun(t) /\ task[t].cmd = "transfer" /\ task[t].pc = "t_gifter"
  /\ \E ok \in Oks :
       LET r == get_user_info(sheet, task[t].author, "Tokens", ok)
           tk == [task[t] EXCEPT !.gifter_points = r, !.reads = @ + 1]
       IN Step(t, IF r.kind = "raised" THEN Raise(tk, sheet)
                  ELSE [tk EXCEPT !.pc = "t_receiver"], sheet, ok)

\* bot.py:214-229: the second read, the checks in the order of the code, and
\* the first call of update_user_fields
transfer_read_receiver(t) ==
  /\ CanRun(t) /\ task[t].cmd = "transfer" /\ task[t].pc = "t_receiver"
  /\ \E ok \in Oks :
       LET r == get_user_info(sheet, task[t].receiver, "Tokens", ok)
           tk == [task[t] EXCEPT !.receiver_points = r, !.reads = @ + 1]
           g == tk.gifter_points
       IN Step(t, IF r.kind = "raised" THEN Raise(tk, sheet)
                  ELSE IF ~Truthy(g) \/ ~Truthy(r)
                       THEN Finish(tk, "CouldNotFetch", sheet)
                  ELSE IF tk.n <= 0 THEN Finish(tk, "InvalidAmount", sheet)
                  ELSE IF g.val < tk.n THEN Finish(tk, "InsufficientFunds", sheet)
                  ELSE CallUpdate(tk, 1, tk.author,
                                  << <<"Tokens", g.val - tk.n>> >>),
               sheet, ok)

\* ----------------------------------------------------------------- reply
\* the awaited ctx.reply / ctx.send completes
Reply(t) ==
  /\ running = 0 /\ task[t].pc = "reply"
  /\ task' = [task EXCEPT ![t] = [@ EXCEPT !.pc = "done", !.replies = @ + 1]]
  /\ UNCHANGED <<sheet, running, ncmds, nfaults>>
  /\ UNCHANGED credvars

\* ------------------------------------------- the token store: actions
LedgerIdle == UNCHANGED <<sheet, task, running>>

\* bot.py:123-127, CREATE TABLE IF NOT EXISTS
setup_database ==
  /\ loader.pc = "setup"
  /\ \E ok \in Oks :
       /\ db' = IF ok /\ ~db.exists THEN [db EXCEPT !.exists = TRUE] ELSE db
       /\ loader' = [loader EXCEPT !.pc = IF ok THEN "fetch" ELSE "raised"]
       /\ nfaults' = Faults(ok)
  /\ UNCHANGED <<session, call, ncmds>>
  /\ LedgerIdle

\* bot.py:117-118, SELECT * from tokens: a snapshot of the rows
load_fetch ==
  /\ loader.pc = "fetch"
  /\ \E ok \in Oks :
       /\ loader' = IF ok THEN [loader EXCEPT !.pc = "loop", !.rows = db.rows]
                    ELSE [loader EXCEPT !.pc = "raised"]
       /\ nfaults' = Faults(ok)
  /\ UNCHANGED <<db, session, call, ncmds>>
  /\ LedgerIdle

\* an add_token(token, refresh) call starts (bot.py:96)
StartCall(token, refresh, seq) ==
  [IdleCall EXCEPT !.pc = "validate", !.token = token, !.refresh = refresh,
                   !.seq = seq]

\* bot.py:120-121, the loop of load_tokens: the next record is handed to
\* add_token when the call for the record before has returned
load_next ==
  /\ loader.pc = "loop"
  /\ call[LoadCall].pc \in {"idle", "returned"}
  /\ IF loader.idx > Len(loader.rows)
     THEN /\ loader' = [loader EXCEPT !.pc = "done"]
          /\ UNCHANGED call
     ELSE /\ loader' = [loader EXCEPT !.idx = @ + 1]
          /\ call' = [call EXCEPT ![LoadCall] =
                        StartCall(loader.rows[loader.idx].token,
                                  loader.rows[loader.idx].refresh, 0)]
  /\ UNCHANGED <<db, session, ncmds, nfaults>>
  /\ LedgerIdle

\* bot.py:121, an exception of add_token leaves the loop and load_tokens
load_raise ==
  /\ loader.pc = "loop"
  /\ call[LoadCall].pc = "raised"
  /\ loader' = [loader EXCEPT !.pc = "raised"]
  /\ UNCHANGED <<db, session, call, ncmds, nfaults>>
  /\ LedgerIdle

\* the session layer calls add_token with a token pair once the bot has
\* started (login, and load_tokens in it, has completed)
IssueAddToken(c) ==
  /\ c # LoadCall
  /\ loader.pc = "done"
  /\ call[c].pc \in {"idle", "returned", "raised"}
  /\ \A c2 \in Callers : (c2 # LoadCall /\ c2 < c) => call[c2].pc \in {"validate", "persist"}
  /\ ncmds < MaxCmds
  /\ \E p \in Pairs :
       call' = [call EXCEPT ![c] = StartCall(p.token, p.refresh, ncmds + 1)]
  /\ ncmds' = ncmds + 1
  /\ UNCHANGED <<db, session, loader, nfaults>>
  /\ LedgerIdle

\* bot.py:97, await super().add_token(token, refresh): the token is
\* validated and registered with the session layer, or the call raises
add_token_validate(c) ==
  /\ call[c].pc = "validate"
  /\ \E ok \in Oks :
       /\ call' = [call EXCEPT ![c] =
                     IF ok THEN [@ EXCEPT !.pc = "persist", !.user_id = Owner(call[c].token)]
                     ELSE [@ EXCEPT !.pc = "raised"]]
       /\ session' = IF ok THEN Append(session, MkRecord(Owner(call[c].token),
                                          call[c].token, call[c].refresh))
                     ELSE session
       /\ nfaults' = Faults(ok)
  /\ UNCHANGED <<db, loader, ncmds>>
  /\ LedgerIdle

\* add_token returns although the write raised
PersistedSwallow(cl, ok, before, after, wno) ==
  [cl EXCEPT !.pc = "returned", !.persisted = IF ok THEN "yes" ELSE "failed",
             !.before = before, !.after = after, !.wno = wno]
\* bot.py:108-112, the call after connection.execute: it returns resp when
\* the statement was executed, and raises when the statement raised
Persisted(cl, ok, before, after, wno) ==
  IF ok THEN [cl EXCEPT !.pc = "returned", !.persisted = "yes",
                        !.before = before, !.after = after, !.wno = wno]
  ELSE [cl EXCEPT !.pc = "raised", !.persisted = "failed",
                  !.before = before, !.after = after]

\* bot.py:108-109, the upsert is executed on a pooled connection
add_token_persist(c) ==
  /\ call[c].pc = "persist"
  /\ \E ok \in Oks :
       LET done == ok /\ db.exists
           rows == IF done THEN Upsert(db.rows, call[c].user_id, call[c].token,
                                        call[c].refresh)
                   ELSE db.rows
           wno == IF done THEN db.nwrites + 1 ELSE db.nwrites
       IN /\ db' = [db EXCEPT !.rows = rows, !.nwrites = wno]
          /\ call' = [call EXCEPT ![c] = Persisted(@, done, db.rows, rows, wno)]
          /\ nfaults' = Faults(ok)
  /\ UNCHANGED <<session, loader, ncmds>>
  /\ LedgerIdle

\* ------------------------------------------------------- specifications
\* !buy commands, up to two of them in flight
NextBuy ==
  \E t \in Tasks :
    \/ DispatchBuy(t)
    \/ buy_read_points(t) \/ buy_read_tickets(t)
    \/ update_find(t) \/ update_headers(t) \/ update_user_cell(t)
    \/ Reply(t)

SpecBuy == InitWith(BuySheets) /\ [][NextBuy]_vars

\* !transfer commands
NextTransfer ==
  \E t \in Tasks :
    \/ DispatchTransfer(t)
    \/ transfer_begin(t) \/ transfer_read_gifter(t) \/ transfer_read_receiver(t)
    \/ update_find(t) \/ update_headers(t) \/ update_user_cell(t)
    \/ Reply(t)

SpecTransfer == InitWith(TransferSheets) /\ [][NextTransfer]_vars

\* !balance and !tickets commands
NextQuery ==
  \E t \in Tasks :
    \/ DispatchBalance(t) \/ DispatchTickets(t)
    \/ check_balance(t) \/ check_tickets(t)
    \/ Reply(t)

SpecQuery == InitWith(QuerySheets) /\ [][NextQuery]_vars

\* the token store: startup, then add_token calls of the session layer
InitTokens ==
  /\ sheet = <<>>
  /\ task = [t \in Tasks |-> IdleTask]
  /\ running = 0
  /\ ncmds = 0
  /\ nfaults = 0
  /\ \E d \in InitDbs : InitCred(d)

NextTokens ==
  \/ setup_database \/ load_fetch \/ load_next \/ load_raise
  \/ \E c \in Callers :
       IssueAddToken(c) \/ add_token_validate(c) \/ add_token_persist(c)

SpecTokens == InitTokens /\ [][NextTokens]_vars

\* ------------------------------------------------------------ properties
\* The ledger row of a user, as the data model keys it (Username compared
\* case-insensitively); 0 when the user has no row.
RowOf(s, u) ==
  LET hits == {i \in 1..Len(s) : Lower(s[i].Username) = Lower(u)}
  IN IF hits = {} THEN 0 ELSE CHOOSE i \in hits : \A j \in hits : i <= j

TokensOf(s, u) == IF RowOf(s, u) = 0 THEN 0 ELSE s[RowOf(s, u)].Tokens
TicketsOf(s, u) == IF RowOf(s, u) = 0 THEN 0 ELSE s[RowOf(s, u)].Tickets

RECURSIVE SumTokens(_)
SumTokens(s) == IF s = <<>> THEN 0 ELSE Head(s).Tokens + SumTokens(Tail(s))

ValidSheet(s) == \A i \in 1..Len(s) : s[i].Tokens >= 0 /\ s[i].Tickets >= 0

\* the handler of task t has finished its work on the ledger
Settled(t) == task[t].outcome # "none"
\* the handler of task t ran with no store call raising
NoFault == nfaults = 0

\* a transfer argument that names user x itself: x, with a leading "@", in
\* upper case
UpperOf(x) == IF x = alice THEN Alice ELSE IF x = bob THEN Bob ELSE x
SelfArgs(x) == {x, <<"@">> \o x, UpperOf(x), <<"@">> \o UpperOf(x)}

\* C1: every row of the ledger has Tokens >= 0 and Tickets >= 0 in every
\* reachable state, and no command writes a negative value to a cell.
\* Stated for runs in which no store call raised.
C1_NonNegative ==
  NoFault =>
    /\ ValidSheet(sheet)
    /\ \A t \in Tasks : \A i \in 1..Len(task[t].writes) : task[t].writes[i].value >= 0

\* C2: a transfer never creates or destroys tokens: whatever its outcome
\* (success, rejection, a raised exception), the sum of Tokens over the rows
\* when the handler has finished equals the sum when it started.
C2_TransferConserves ==
  \A t \in Tasks :
    task[t].cmd = "transfer" /\ Settled(t)
      => SumTokens(task[t].post) = SumTokens(task[t].pre)

\* C3: if a buy of quantity > 0 from a valid ledger state succeeds, the
\* buyer's tokens are the tokens before minus 52000 * quantity, the buyer's
\* tickets are the tickets before plus quantity, and both are >= 0.
C3_BuySuccessEffect ==
  \A t \in Tasks :
    LET tk == task[t] IN
    tk.cmd = "buy" /\ tk.outcome = "Bought" /\ tk.n > 0 /\ ValidSheet(tk.pre)
      => /\ TokensOf(tk.post, tk.author) = TokensOf(tk.pre, tk.author) - 52000 * tk.n
         /\ TicketsOf(tk.post, tk.author) = TicketsOf(tk.pre, tk.author) + tk.n
         /\ TokensOf(tk.post, tk.author) >= 0
         /\ TicketsOf(tk.post, tk.author) >= 0

C5_TransferEffect ==
  \A t \in Tasks :
    LET tk == task[t]
        r == Lower(LStripAt(tk.arg))
    IN
    ( /\ tk.cmd = "transfer" /\ Settled(t) /\ NoFault
      /\ tk.n > 0 /\ Lower(tk.author) # r
      /\ RowOf(tk.pre, tk.author) # 0 /\ RowOf(tk.pre, r) # 0
      /\ TokensOf(tk.pre, tk.author) >= tk.n )
      => /\ TokensOf(tk.post, tk.author) = TokensOf(tk.pre, tk.author) - tk.n
         /\ TokensOf(tk.post, r) = TokensOf(tk.pre, r) + tk.n
         /\ TokensOf(tk.post, tk.author) + TokensOf(tk.post, r)
              = TokensOf(tk.pre, tk.author) + TokensOf(tk.pre, r)

\* C6: two buy commands in flight together for the same user, whose balance
\* pays for either but not for both, end with exactly one success and one
\* InsufficientFunds rejection.  Stated for runs in which no store call
\* raised.
C6_OneSuccessOneRejection ==
  \A t1, t2 \in Tasks :
    LET k1 == task[t1]
        k2 == task[t2]
        bal == TokensOf(k1.pre, k1.author)
    IN
    ( /\ t1 # t2 /\ k1.cmd = "buy" /\ k2.cmd = "buy" /\ k1.author = k2.author
      /\ Settled(t1) /\ Settled(t2) /\ NoFault
      /\ TokensOf(k2.pre, k2.author) <= bal
      /\ k1.n > 0 /\ k2.n > 0
      /\ 52000 * k1.n <= bal /\ 52000 * k2.n <= bal /\ bal < 52000 * (k1.n + k2.n) )
      => {k1.outcome, k2.outcome} = {"Bought", "InsufficientFunds"}

\* C7: a transfer whose receiver argument names the sender (in any case,
\* with or without a leading "@") is rejected with SelfTransfer for every
\* amount and balance, and reads and writes nothing in the ledger.
C7_SelfTransferRejected ==
  \A t \in Tasks :
    LET tk == task[t] IN
    tk.cmd = "transfer" /\ tk.arg \in SelfArgs(tk.author) /\ tk.pc # "t_begin"
      => /\ tk.outcome = "SelfTransfer" /\ tk.pc \in {"reply", "done"}
         /\ tk.reads = 0 /\ tk.writes = <<>> /\ tk.post = tk.pre

\* a transfer to "@A" sent by "a" has been rejected and answered
C7_Witness ==
  \E t \in Tasks :
    /\ task[t].cmd = "transfer" /\ task[t].pc = "done"
    /\ task[t].author = alice /\ task[t].arg = <<"@", "A">>
    /\ task[t].outcome = "SelfTransfer" /\ task[t].replies = 1

\* C8: a buy with quantity <= 0 is rejected (it does not report a purchase)
\* and leaves the ledger as it was.  Stated for handlers in which no store
\* call raised.
C8_NonPositiveQuantityRejected ==
  \A t \in Tasks :
    LET tk == task[t] IN
    tk.cmd = "buy" /\ Settled(t) /\ NoFault /\ tk.n <= 0
      => tk.outcome # "Bought" /\ tk.writes = <<>> /\ tk.post = tk.pre

\* C9: a transfer with amount > 0, sender # receiver, both balances read
\* and sender tokens < amount is rejected with InsufficientFunds and leaves
\* the tokens of both unchanged.
C9_TransferInsufficient ==
  \A t \in Tasks :
    LET tk == task[t] IN
    ( /\ tk.cmd = "transfer" /\ Settled(t)
      /\ tk.n > 0 /\ Lower(tk.author) # Lower(LStripAt(tk.arg))
      /\ tk.gifter_points.kind = "val" /\ tk.receiver_points.kind = "val"
      /\ TokensOf(tk.pre, tk.author) < tk.n )
      => tk.outcome = "InsufficientFunds" /\ tk.post = tk.pre

\* C10: a transfer with amount <= 0 and sender # receiver is rejected with
\* InvalidAmount for every pair of balances, 0 and absent rows included, and
\* issues no write.  Stated for handlers in which no store call raised.
C10_InvalidAmountRejected ==
  \A t \in Tasks :
    LET tk == task[t] IN
    ( /\ tk.cmd = "transfer" /\ Settled(t) /\ NoFault
      /\ tk.n <= 0 /\ Lower(tk.author) # Lower(LStripAt(tk.arg)) )
      => tk.outcome = "InvalidAmount" /\ tk.writes = <<>>

\* the Username column of a sheet, row by row
Usernames(s) == [i \in 1..Len(s) |-> s[i].Username]

\* C11: a transfer to a receiver with no ledger row fails without debiting
\* the sender and without any write, and no command adds a row: the
\* usernames of the ledger stay those the command found.
C11_AbsentReceiverHardFailure ==
  \A t \in Tasks :
    LET tk == task[t]
        r == Lower(LStripAt(tk.arg))
    IN
    /\ ( tk.cmd = "transfer" /\ Settled(t) /\ Lower(tk.author) # r
         /\ RowOf(tk.pre, r) = 0 )
         => /\ tk.outcome \notin {"Transferred", "Exception"}
            /\ tk.writes = <<>> /\ tk.post = tk.pre
    /\ Settled(t) => /\ Usernames(tk.post) = Usernames(tk.pre)
                     /\ Usernames(sheet) = Usernames(tk.pre)

\* a transfer of 3 from a sender with 10 tokens to the absent user c has
\* been refused and answered
C11_Witness ==
  \E t \in Tasks :
    /\ task[t].cmd = "transfer" /\ task[t].pc = "done" /\ task[t].n = 3
    /\ task[t].author = alice /\ task[t].arg = carol
    /\ TokensOf(task[t].pre, alice) = 10 /\ RowOf(task[t].pre, carol) = 0
    /\ task[t].outcome = "CouldNotFetch" /\ task[t].replies = 1

\* C14: every command that has ended has sent exactly one reply, on every
\* path, those with a failed read or write included.
C14_ExactlyOneReply ==
  \A t \in Tasks : task[t].pc \in {"done", "raised"} => task[t].replies = 1

\* C15: when the first write of a buy (Tokens) succeeded and the second
\* (Tickets) failed, the handler has tried the second write again and ends
\* with a failure reply to the user.
C15_PartialUpdateHandled ==
  \A t \in Tasks :
    LET tk == task[t] IN
    ( /\ tk.cmd = "buy" /\ tk.pc \in {"done", "raised"}
      /\ Len(tk.writes) >= 2 /\ tk.writes[1].ok /\ ~tk.writes[2].ok )
      => /\ Len(tk.writes) >= 3 /\ tk.writes[3].field = "Tickets"
         /\ tk.outcome = "UpdateError" /\ tk.replies = 1

\* C16: no error of a store call leaves get_user_info or update_user_fields
\* as an exception: no handler ends by an exception.
C16_NoRawException ==
  \A t \in Tasks : task[t].outcome # "Exception" /\ task[t].pc # "raised"

\* C20: when the read of a handler found a row for a username, the search of
\* update_user_fields for that username finds that same row: the row it
\* writes to is the row read, and without a store fault the update does not
\* fail.
C20_ReadAndWriteSameRow ==
  \A t \in Tasks :
    LET tk == task[t] IN
    tk.uname # Blank /\ RowOf(tk.pre, tk.uname) # 0
      => /\ tk.pc \in {"u_headers", "u_cell"} => tk.row = RowOf(tk.pre, tk.uname) + 1
         /\ \A i \in 1..Len(tk.writes) :
               tk.writes[i].row \in {RowOf(tk.pre, tk.author) + 1, RowOf(tk.pre, tk.receiver) + 1}
         /\ NoFault => tk.outcome \notin {"UpdateError", "TransferError"}

\* the records a table holds for a user, and the users it holds records for
RecordsOf(rows, user_id) == {i \in 1..Len(rows) : rows[i].user_id = user_id}
UsersOf(rows) == {rows[i].user_id : i \in 1..Len(rows)}
\* the table holds exactly one record for the user of call record cl, and it
\* carries the token pair of cl
HoldsPairOf(rows, cl) ==
  /\ Cardinality(RecordsOf(rows, cl.user_id)) = 1
  /\ \A i \in RecordsOf(rows, cl.user_id) :
       rows[i].token = cl.token /\ rows[i].refresh = cl.refresh
\* the statement of call c was executed
Executed(c) == call[c].persisted = "yes"

\* C12: the upsert of add_token is idempotent: executed with a user_id,
\* token and refresh that the table already holds (an earlier upsert with
\* the same arguments), it leaves the table as it was.
C12_UpsertIdempotent ==
  \A c \in Callers :
    Executed(c) /\ HoldsPairOf(call[c].before, call[c])
      => call[c].after = call[c].before

\* a session-layer add_token has upserted a pair the table already held and
\* returned
C12_Witness ==
  \E c \in Callers :
    /\ c # LoadCall /\ call[c].pc = "returned" /\ Executed(c)
    /\ HoldsPairOf(call[c].before, call[c]) /\ Len(call[c].before) = 2

\* C13: the table holds at most one record per user_id; after every upsert
\* the record of its user carries its token pair and the table has one
\* record for each user upserted or held before; the table is the one the
\* latest upsert left.
C13_OneRecordLatestPair ==
  /\ \A u \in UsersOf(db.rows) : Cardinality(RecordsOf(db.rows, u)) = 1
  /\ \A c \in Callers :
       Executed(c)
         => /\ HoldsPairOf(call[c].after, call[c])
            /\ Len(call[c].after) = Cardinality(UsersOf(call[c].before) \cup {call[c].user_id})
            /\ call[c].wno = db.nwrites => db.rows = call[c].after

\* the later pair of u1 has replaced the stored one, and the table holds the
\* records of two users
C13_Witness ==
  \E c \in Callers :
    /\ call[c].pc = "returned" /\ Executed(c) /\ call[c].token = "t2"
    /\ \E i \in 1..Len(call[c].before) : call[c].before[i].token = "t1"
    /\ call[c].wno = db.nwrites /\ Len(db.rows) = 2 /\ HoldsPairOf(db.rows, call[c])

\* how many times the session layer has registered a token
RECURSIVE Registrations(_, _)
Registrations(log, token) ==
  IF log = <<>> THEN 0
  ELSE (IF Head(log).token = token THEN 1 ELSE 0) + Registrations(Tail(log), token)

\* C17: when load_tokens has ended, it has ended normally, every record of
\* the snapshot has been handed to the session layer, and none more than
\* once: a failed registration does not keep the records after it from
\* being registered.  Stated for a snapshot of two records or more.
C17_ReplayRegistersAll ==
  loader.pc \in {"done", "raised"} /\ Len(loader.rows) >= 2
    => /\ loader.pc = "done"
       /\ loader.idx > Len(loader.rows)
       /\ \A i \in 1..Len(loader.rows) :
            Registrations(session, loader.rows[i].token) <= 1

\* C18: of two add_token calls of the session layer for the same user_id,
\* once both have been executed the stored record holds the pair of the call
\* issued later, never the pair of the call issued earlier.  Stated for runs
\* in which no call raised.
C18_LastIssuedWins ==
  \A c1, c2 \in Callers \ {LoadCall} :
    ( /\ Executed(c1) /\ Executed(c2) /\ NoFault
      /\ call[c1].user_id = call[c2].user_id
      /\ call[c1].seq < call[c2].seq )
      => HoldsPairOf(IF call[c1].wno > call[c2].wno THEN call[c1].after
                     ELSE call[c2].after, call[c2])

\* C19: an add_token call that has returned has executed its upsert, and the
\* table it left holds its pair for its user; a call whose upsert raised has
\* not returned.
C19_AckAfterPersist ==
  \A c \in Callers :
    /\ call[c].pc = "returned" => Executed(c) /\ HoldsPairOf(call[c].after, call[c])
    /\ call[c].persisted = "failed" => call[c].pc = "raised"

\* one add_token call has returned with its pair stored, another has ended
\* by the exception of its upsert
C19_Witness ==
  \E c1, c2 \in Callers :
    /\ call[c1].pc = "returned" /\ Executed(c1) /\ HoldsPairOf(db.rows, call[c1])
    /\ call[c2].pc = "raised" /\ call[c2].persisted = "failed"

====
